---------------------------- MODULE Spec2Model ----------------------------
(***************************************************************************)
(* zenoh/closures.py: the two receivers of the callback bridge.            *)
(*                                                                         *)
(*   Queue          (lines 129-193)  call / drop / get / get_remaining     *)
(*   ListCollector  (lines 100-124)  call / drop / receiver wait           *)
(*   IClosure       (lines 22-29)    __enter__ / __exit__ both call drop   *)
(*                                                                         *)
(* Threads interleave at the granularity of the interpreter: one step is   *)
(* one statement that touches shared state (a deque/list operation, a read *)
(* of _done_, a lock acquisition, a Condition.wait or notify).  A          *)
(* threading.Condition is modelled by what it does: a lock owner, the set  *)
(* of registered waiters, and the set of waiters whose notification has    *)
(* been delivered.  notify() hands the notification to ONE registered      *)
(* waiter (threading.Condition.notify(n=1)); a waiter whose timeout has    *)
(* elapsed stays registered until it has re-acquired the lock.             *)
(***************************************************************************)
EXTENDS Integers, Sequences, FiniteSets, TLC

----------------------------------------------------------------------------
(* Bounds of the model *)

\* operations the producer threads invoke in one run
MaxProducerOps == 3

\* operations the consumer threads invoke in one run
MaxConsumerOps == 3

\* operations the producer thread of a ListCollector invokes in one run
MaxCollectorOps == 3

\* waits the consumer threads of a ListCollector invoke in one run
MaxWaits == 2

\* invocations of call and drop on one normalised closure
MaxInvocations == 2

\* the longest tuple handed to a constructor
MaxTuple == 3

\* values handed to call(x)
Values == {1, 2}

Producers == {"p1"}
Consumers == {"c1", "c2"}
Threads == Producers \cup Consumers

\* what a consumer thread runs: one receiver method with one timeout
\* argument (None, 0, or a positive number of seconds), called in a loop.
\* For get a positive timeout may elapse at any moment, which covers 0.
QueuePrograms ==
    {[op |-> "get", tmo |-> "None"], [op |-> "get", tmo |-> "Pos"],
     [op |-> "get_remaining", tmo |-> "None"],
     [op |-> "get_remaining", tmo |-> "Zero"],
     [op |-> "get_remaining", tmo |-> "Pos"]}

NoThread == "nobody"

----------------------------------------------------------------------------
VARIABLES
    qvec,        \* Queue._vec_   (deque; the right end is the end of the sequence)
    qdone,       \* Queue._done_
    lvec,        \* ListCollector._vec_
    ldone,       \* ListCollector._done_
    ltimeout,    \* ListCollector.timeout
    lock,        \* owner of the instance's Condition lock (_cv_), or NoThread
    waiters,     \* threads registered in _cv_ (Condition._waiters)
    notified,    \* registered waiters that a notify() has released
    prog,        \* the method and timeout each consumer thread calls
    pc,          \* position of each thread
    arg,         \* producer: the x of the call(x) it is running; consumer: how
                 \* many producer operations had taken effect when it called
    hist,        \* producer operations in the order they took effect
    obs,         \* outcomes of the consumer operations in completion order
    dropWaiters, \* consumers that were blocked without timeout on the empty,
                 \* open instance when the first drop took effect
    class,       \* the class under construction: "Closure" or "Handler"
    input,       \* the first argument of its __init__
    type_adaptor,\* the second argument of its __init__
    made,        \* what the constructor gave: the object, or the error raised
    invoked      \* the underlying callables invoked so far, with their arguments

vars == <<qvec, qdone, lvec, ldone, ltimeout, lock, waiters, notified,
          prog, pc, arg, hist, obs, dropWaiters,
          class, input, type_adaptor, made, invoked>>

qstate == <<qvec, qdone>>
lstate == <<lvec, ldone, ltimeout>>
cstate == <<class, input, type_adaptor, made, invoked>>

----------------------------------------------------------------------------
(* Helpers *)

\* nothing has been handed to a constructor
Unmade == [err |-> "unmade"]

\* a value that is neither callable nor a tuple nor a closure (5, say)
Scalar == [kind |-> "scalar"]

NoConstruction ==
    /\ class = "none"
    /\ input = Scalar
    /\ type_adaptor = "None"
    /\ made = Unmade
    /\ invoked = <<>>

Last(s) == s[Len(s)]
Front(s) == SubSeq(s, 1, Len(s) - 1)

Running == {t \in Threads : pc[t] # "idle"}

\* operations already invoked by the producers / by the consumers
ProducerOps == Len(hist) + Cardinality(Running \cap Producers)
ConsumerOps == Len(obs) + Cardinality(Running \cap Consumers)

\* one outcome of a consumer operation: kind is "value" (get returned val[1]),
\* "list" (the sequence val was returned), "none" (None was returned), or the
\* error raised: "QueueClosed", "Timeout", "TypeError"
Outcome(c, kind, val) == [who |-> c, kind |-> kind, val |-> val]

\* the operation returns or raises: back to the caller
Finish(c, kind, val) ==
    /\ obs' = Append(obs, Outcome(c, kind, val))
    /\ pc' = [pc EXCEPT ![c] = "idle"]
    /\ arg' = [arg EXCEPT ![c] = 0]

\* a consumer enters a receiver method
Begin(c, l) ==
    /\ pc' = [pc EXCEPT ![c] = l]
    /\ arg' = [arg EXCEPT ![c] = Len(hist)]

\* the consumer threads are numbered in the order of their first call
MayInvoke(c, max) ==
    /\ pc[c] = "idle"
    /\ ConsumerOps < max
    /\ c = "c2" => (pc["c1"] # "idle" \/ \E i \in 1..Len(obs) : obs[i].who = "c1")

Goto(t, l) == pc' = [pc EXCEPT ![t] = l]

----------------------------------------------------------------------------
(* threading.Condition *)

\* `with self._cv_:` entry
Acquire(t) ==
    /\ lock = NoThread
    /\ lock' = t

\* `with self._cv_:` exit
Release(t) ==
    /\ lock = t
    /\ lock' = NoThread

\* self._cv_.notify(): release one registered waiter, if there is one
Notify ==
    IF waiters = {}
    THEN UNCHANGED <<waiters, notified>>
    ELSE \E w \in waiters :
            /\ waiters' = waiters \ {w}
            /\ notified' = notified \cup {w}

\* `with self._cv_:` entry followed at once by self._cv_.wait(...): take the
\* lock, register as a waiter, give the lock up
WaitBegin(t) ==
    /\ lock = NoThread
    /\ waiters' = waiters \cup {t}
    /\ UNCHANGED <<lock, notified>>

\* the tail of wait(): take the lock back, deregister
WaitEnd(t) ==
    /\ lock = NoThread
    /\ lock' = t
    /\ waiters' = waiters \ {t}
    /\ notified' = notified \ {t}

----------------------------------------------------------------------------
(* Queue.closure: call and drop  (lines 138-148) *)

\* a deque that grows at the left end (appendleft)
QAppendLeft(vec, x) == <<x>> \o vec

\* collections.deque.append
QAppend(vec, x) == Append(vec, x)

\* a pop that leaves the element where it is
QPopKeep(vec) == vec

\* collections.deque.popleft: the value it returns
QPopLeftValue(vec) == Head(vec)

\* collections.deque.pop: the element removed and what is left
QPopValue(vec) == Last(vec)
QPopRest(vec) == Front(vec)

\* call(x), line 141: with self._cv_
QCallEnter(p, x) ==
    /\ pc[p] = "idle"
    /\ ProducerOps < MaxProducerOps
    /\ Acquire(p)
    /\ Goto(p, "call_body")
    /\ arg' = [arg EXCEPT ![p] = x]
    /\ UNCHANGED <<qstate, lstate, waiters, notified, prog, cstate, hist, obs, dropWaiters>>

\* call(x), lines 142-143: append, notify, leave the with block
QCallBody(p) ==
    /\ pc[p] = "call_body"
    /\ qvec' = QAppend(qvec, arg[p])
    /\ Notify
    /\ Release(p)
    /\ hist' = Append(hist, [who |-> p, op |-> "call", val |-> arg[p]])
    /\ Goto(p, "idle")
    /\ arg' = [arg EXCEPT ![p] = 0]
    /\ UNCHANGED <<qdone, lstate, prog, cstate, obs, dropWaiters>>

\* drop(), line 145: with self._cv_
QDropEnter(p) ==
    /\ pc[p] = "idle"
    /\ ProducerOps < MaxProducerOps
    /\ Acquire(p)
    /\ Goto(p, "drop_body")
    /\ UNCHANGED <<qstate, lstate, waiters, notified, prog, cstate, arg, hist, obs, dropWaiters>>

\* the timeout handed to Condition.wait is None: get(None), line 168;
\* get_remaining(None) and get_remaining(0), line 188 (`if timeout` is false
\* for 0); the collector's wait with timeout None, line 122
WaitsForever(c) ==
    \/ pc[c] = "get_blocked" /\ prog[c].tmo = "None"
    \/ pc[c] = "rem_blocked"
    \/ pc[c] = "wait_blocked" /\ ltimeout = "None"

\* consumers parked in wait() with no timeout and not yet notified
BlockedForever == {c \in Consumers : WaitsForever(c) /\ c \in waiters}

\* a drop that takes the flag back when it finds it set
QDropToggle(p) ==
    /\ pc[p] = "drop_body"
    /\ qdone' = ~qdone
    /\ Notify
    /\ Release(p)
    /\ hist' = Append(hist, [who |-> p, op |-> "drop", val |-> 0])
    /\ dropWaiters' = IF ~qdone /\ qvec = <<>> THEN BlockedForever ELSE dropWaiters
    /\ Goto(p, "idle")
    /\ UNCHANGED <<qvec, lstate, prog, cstate, arg, obs>>

\* drop(), lines 146-147: set _done_, notify, leave the with block
QDropBody(p) ==
    /\ pc[p] = "drop_body"
    /\ qdone' = TRUE
    /\ Notify
    /\ Release(p)
    /\ hist' = Append(hist, [who |-> p, op |-> "drop", val |-> 0])
    /\ dropWaiters' = IF ~qdone /\ qvec = <<>> THEN BlockedForever ELSE dropWaiters
    /\ Goto(p, "idle")
    /\ UNCHANGED <<qvec, lstate, prog, cstate, arg, obs>>

----------------------------------------------------------------------------
(* Queue.get  (lines 154-176) *)

\* lines 161-164: the first pop, outside the lock
GetTry(c) ==
    /\ MayInvoke(c, MaxConsumerOps)
    /\ prog[c].op = "get"
    /\ IF qvec # <<>>
       THEN /\ qvec' = QPopRest(qvec)
            /\ Finish(c, "value", <<QPopValue(qvec)>>)
       ELSE /\ Begin(c, "get_chk")
            /\ UNCHANGED <<qvec, obs>>
    /\ UNCHANGED <<qdone, lstate, lock, waiters, notified, prog, cstate, hist, dropWaiters>>

\* a get that goes to its wait without the look at _done_ of line 165
GetCheckBlind(c) ==
    /\ pc[c] = "get_chk"
    /\ Goto(c, "get_wait")
    /\ UNCHANGED <<arg, obs>>
    /\ UNCHANGED <<qstate, lstate, lock, waiters, notified, prog, cstate, hist, dropWaiters>>

\* lines 165-166: the first look at _done_, outside the lock
GetCheck(c) ==
    /\ pc[c] = "get_chk"
    /\ IF qdone
       THEN Finish(c, "QueueClosed", <<>>)
       ELSE Goto(c, "get_wait") /\ UNCHANGED <<arg, obs>>
    /\ UNCHANGED <<qstate, lstate, lock, waiters, notified, prog, cstate, hist, dropWaiters>>

\* lines 167-168: with self._cv_: self._cv_.wait(timeout=timeout), whatever
\* the buffer holds by now.  The lock is taken and given up by the wait.
GetWait(c) ==
    /\ pc[c] = "get_wait"
    /\ WaitBegin(c)
    /\ Goto(c, "get_blocked")
    /\ UNCHANGED <<qstate, lstate, prog, cstate, arg, hist, obs, dropWaiters>>

\* line 168: the timeout of the wait elapses
GetTimeout(c) ==
    /\ pc[c] = "get_blocked"
    /\ prog[c].tmo # "None"
    /\ Goto(c, "get_timedout")
    /\ UNCHANGED <<qstate, lstate, lock, waiters, notified, prog, cstate, arg, hist, obs, dropWaiters>>

\* line 168: wait() returns, notified or timed out, holding the lock again
GetWake(c) ==
    /\ \/ pc[c] = "get_blocked" /\ c \in notified
       \/ pc[c] = "get_timedout"
    /\ WaitEnd(c)
    /\ Goto(c, "get_pop2")
    /\ UNCHANGED <<qstate, lstate, prog, cstate, arg, hist, obs, dropWaiters>>

\* lines 169-172: the second pop, under the lock; then the with block ends
GetRetry(c) ==
    /\ pc[c] = "get_pop2"
    /\ Release(c)
    /\ IF qvec # <<>>
       THEN /\ qvec' = QPopRest(qvec)
            /\ Finish(c, "value", <<QPopValue(qvec)>>)
       ELSE /\ Goto(c, "get_chk2")
            /\ UNCHANGED <<qvec, arg, obs>>
    /\ UNCHANGED <<qdone, lstate, waiters, notified, prog, cstate, hist, dropWaiters>>

\* a get that closes the queue when it gives up
GetFailClosing(c) ==
    /\ pc[c] = "get_chk2"
    /\ Finish(c, IF qdone THEN "QueueClosed" ELSE "Timeout", <<>>)
    /\ qdone' = TRUE
    /\ UNCHANGED <<qvec, lstate, lock, waiters, notified, prog, cstate, hist, dropWaiters>>

\* lines 173-176: outside the lock again, QueueClosed or TimeoutError
GetFail(c) ==
    /\ pc[c] = "get_chk2"
    /\ Finish(c, IF qdone THEN "QueueClosed" ELSE "Timeout", <<>>)
    /\ UNCHANGED <<qstate, lstate, lock, waiters, notified, prog, cstate, hist, dropWaiters>>

----------------------------------------------------------------------------
(* Queue.get_remaining  (lines 178-193) *)

\* lines 185-186: end = time.time() + timeout, or None; then the first
\* `while not self._done_`, outside the lock
RemInvoke(c) ==
    /\ MayInvoke(c, MaxConsumerOps)
    /\ prog[c].op = "get_remaining"
    /\ Begin(c, IF qdone THEN "rem_list" ELSE "rem_wait")
    /\ UNCHANGED <<qstate, lstate, lock, waiters, notified, prog, cstate, hist, obs, dropWaiters>>

\* line 186: `while not self._done_` once more, outside the lock
RemCheck(c) ==
    /\ pc[c] = "rem_chk"
    /\ Goto(c, IF qdone THEN "rem_list" ELSE "rem_wait")
    /\ UNCHANGED <<qstate, lstate, lock, waiters, notified, prog, cstate, arg, hist, obs, dropWaiters>>

\* lines 187-188: with self._cv_:
\*     self._cv_.wait(timeout=(timeout - time.time()) if timeout else None).
\* None and 0 wait without limit; a positive timeout less the clock reading
\* is negative, and a wait with a negative timeout does not block
RemWait(c) ==
    /\ pc[c] = "rem_wait"
    /\ WaitBegin(c)
    /\ Goto(c, IF prog[c].tmo = "Pos" THEN "rem_timedout" ELSE "rem_blocked")
    /\ UNCHANGED <<qstate, lstate, prog, cstate, arg, hist, obs, dropWaiters>>

\* line 188: wait() returns holding the lock again
RemWake(c) ==
    /\ \/ pc[c] = "rem_blocked" /\ c \in notified
       \/ pc[c] = "rem_timedout"
    /\ WaitEnd(c)
    /\ Goto(c, "rem_post")
    /\ UNCHANGED <<qstate, lstate, prog, cstate, arg, hist, obs, dropWaiters>>

\* line 191: time.time() >= end.  end is None for timeout None (the
\* comparison raises TypeError), the call time for 0 (always reached), and
\* still ahead or already reached for a positive timeout
Expiry(tmo) ==
    CASE tmo = "None" -> {"TypeError"}
      [] tmo = "Zero" -> {"Timeout"}
      [] tmo = "Pos"  -> {"Timeout", "again"}

\* lines 189-192, under the lock; every way out releases it
RemPost(c) ==
    /\ pc[c] = "rem_post"
    /\ Release(c)
    /\ IF qdone
       THEN Finish(c, "none", <<>>)
       ELSE \E e \in Expiry(prog[c].tmo) :
               IF e = "again"
               THEN Goto(c, "rem_chk") /\ UNCHANGED <<arg, obs>>
               ELSE Finish(c, e, <<>>)
    /\ UNCHANGED <<qstate, lstate, waiters, notified, prog, cstate, hist, dropWaiters>>

\* line 193: return list(self._vec_)
RemList(c) ==
    /\ pc[c] = "rem_list"
    /\ Finish(c, "list", qvec)
    /\ UNCHANGED <<qstate, lstate, lock, waiters, notified, prog, cstate, hist, dropWaiters>>

----------------------------------------------------------------------------
(* Threads on one Queue *)

\* Queue.__init__, lines 133-136; every thread is yet to start
Init ==
    /\ qvec = <<>>
    /\ qdone = FALSE
    /\ lvec = <<>>
    /\ ldone = FALSE
    /\ ltimeout = "None"
    /\ lock = NoThread
    /\ waiters = {}
    /\ notified = {}
    /\ prog \in [Consumers -> QueuePrograms]
    /\ pc = [t \in Threads |-> "idle"]
    /\ arg = [t \in Threads |-> 0]
    /\ hist = <<>>
    /\ obs = <<>>
    /\ dropWaiters = {}
    /\ NoConstruction

\* a producer thread calls into the closure
ProducerInvoke(p) ==
    \/ \E x \in Values : QCallEnter(p, x)
    \/ QDropEnter(p)

\* a producer thread goes on with the operation it is in
ProducerStep(p) ==
    \/ QCallBody(p)
    \/ QDropBody(p)

\* a consumer thread calls into the receiver
ConsumerInvoke(c) ==
    \/ GetTry(c)
    \/ RemInvoke(c)

\* a consumer thread goes on with the operation it is in
ConsumerStep(c) ==
    \/ GetCheck(c)
    \/ GetWait(c)
    \/ GetTimeout(c)
    \/ GetWake(c)
    \/ GetRetry(c)
    \/ GetFail(c)
    \/ RemCheck(c)
    \/ RemWait(c)
    \/ RemWake(c)
    \/ RemPost(c)
    \/ RemList(c)

Next ==
    \/ \E p \in Producers : ProducerInvoke(p)
    \/ \E p \in Producers : ProducerStep(p)
    \/ \E c \in Consumers : ConsumerInvoke(c)
    \/ \E c \in Consumers : ConsumerStep(c)

Spec == Init /\ [][Next]_vars

\* a thread that is inside an operation is scheduled again; whether a thread
\* calls again is up to its program
Fairness ==
    /\ \A p \in Producers : WF_vars(ProducerStep(p))
    /\ \A c \in Consumers : WF_vars(ConsumerStep(c))

FairSpec == Spec /\ Fairness

----------------------------------------------------------------------------
(* ListCollector.closure: call and drop  (lines 107-115), reached through   *)
(* Closure(collector); IClosure.__enter__ and __exit__ (lines 22-29)        *)

\* a list that grows at the wrong end
LAppendFront(vec, x) == <<x>> \o vec

\* list.append
LAppend(vec, x) == Append(vec, x)

\* the producer is inside `with Closure(collector)`
InScope ==
    Cardinality({i \in 1..Len(hist) : hist[i].op = "enter"})
        > Cardinality({i \in 1..Len(hist) : hist[i].op = "exit"})

CollectorOps == Len(hist) + Cardinality(Running \cap Producers)

\* call(x), lines 109-110: append, no lock taken
LCall(p, x) ==
    /\ pc[p] = "idle"
    /\ CollectorOps < MaxCollectorOps
    /\ lvec' = LAppend(lvec, x)
    /\ hist' = Append(hist, [who |-> p, op |-> "call", val |-> x])
    /\ UNCHANGED <<qstate, ldone, ltimeout, lock, waiters, notified,
                   prog, cstate, pc, arg, obs, dropWaiters>>

\* drop(), line 112: with self._cv_.  The caller is the producer itself
\* ("drop"), IClosure.__enter__ ("enter", lines 22-25) or IClosure.__exit__
\* ("exit", lines 26-29)
LDropEnter(p, by) ==
    /\ pc[p] = "idle"
    /\ CollectorOps < MaxCollectorOps
    /\ by = "enter" => ~InScope
    /\ by = "exit" => InScope
    /\ Acquire(p)
    /\ Goto(p, by)
    /\ UNCHANGED <<qstate, lstate, waiters, notified, prog, cstate, arg, hist, obs, dropWaiters>>

\* drop(), lines 113-114: set _done_, notify, leave the with block
LDropBody(p) ==
    /\ pc[p] \in {"drop", "enter", "exit"}
    /\ ldone' = TRUE
    /\ Notify
    /\ Release(p)
    /\ hist' = Append(hist, [who |-> p, op |-> pc[p], val |-> 0])
    /\ dropWaiters' = IF ~ldone /\ lvec = <<>> THEN BlockedForever ELSE dropWaiters
    /\ Goto(p, "idle")
    /\ UNCHANGED <<qstate, lvec, ltimeout, prog, cstate, arg, obs>>

----------------------------------------------------------------------------
(* ListCollector.receiver: wait  (lines 117-124) *)

\* lines 120-122: with self._cv_: if not self._done_: self._cv_.wait(...);
\* when _done_ is set the list is returned at once (line 123)
WaitEnter(c) ==
    /\ MayInvoke(c, MaxWaits)
    /\ prog[c].op = "wait"
    /\ lock = NoThread
    /\ IF ldone
       THEN Begin(c, "wait_use") /\ UNCHANGED <<waiters, notified>>
       ELSE Begin(c, "wait_blocked") /\ WaitBegin(c)
    /\ UNCHANGED <<qstate, lstate, lock, prog, cstate, hist, obs, dropWaiters>>

\* line 122: the timeout of the wait elapses
WaitTimeout(c) ==
    /\ pc[c] = "wait_blocked"
    /\ ltimeout # "None"
    /\ Goto(c, "wait_timedout")
    /\ UNCHANGED <<qstate, lstate, lock, waiters, notified, prog, cstate, arg, hist, obs, dropWaiters>>

\* line 122: wait() returns, notified or timed out, holding the lock again
WaitWake(c) ==
    /\ \/ pc[c] = "wait_blocked" /\ c \in notified
       \/ pc[c] = "wait_timedout"
    /\ WaitEnd(c)
    /\ Goto(c, "wait_ret")
    /\ UNCHANGED <<qstate, lstate, prog, cstate, arg, hist, obs, dropWaiters>>

\* line 123: return self._vec_ and leave the with block
WaitReturn(c) ==
    /\ pc[c] = "wait_ret"
    /\ Release(c)
    /\ Goto(c, "wait_use")
    /\ UNCHANGED <<qstate, lstate, waiters, notified, prog, cstate, arg, hist, obs, dropWaiters>>

\* the caller reads what it was handed: the collector's own list (line 123
\* returns self._vec_, not a copy), as it is when the caller looks
WaitUse(c) ==
    /\ pc[c] = "wait_use"
    /\ Finish(c, "list", lvec)
    /\ UNCHANGED <<qstate, lstate, lock, waiters, notified, prog, cstate, hist, dropWaiters>>

----------------------------------------------------------------------------
(* Threads on one ListCollector *)

\* ListCollector.__init__, lines 101-105; every thread is yet to start
InitCollector ==
    /\ qvec = <<>>
    /\ qdone = FALSE
    /\ lvec = <<>>
    /\ ldone = FALSE
    /\ ltimeout \in {"None", "Pos"}
    /\ lock = NoThread
    /\ waiters = {}
    /\ notified = {}
    /\ prog = [c \in Consumers |-> [op |-> "wait", tmo |-> ltimeout]]
    /\ pc = [t \in Threads |-> "idle"]
    /\ arg = [t \in Threads |-> 0]
    /\ hist = <<>>
    /\ obs = <<>>
    /\ dropWaiters = {}
    /\ NoConstruction

\* the producer thread calls into the closure, or enters or leaves its scope
CollectorInvoke(p) ==
    \/ \E x \in Values : LCall(p, x)
    \/ \E by \in {"drop", "enter", "exit"} : LDropEnter(p, by)

\* a consumer thread goes on with the wait it is in
WaitStep(c) ==
    \/ WaitTimeout(c)
    \/ WaitWake(c)
    \/ WaitReturn(c)
    \/ WaitUse(c)

NextCollector ==
    \/ \E p \in Producers : CollectorInvoke(p)
    \/ \E p \in Producers : LDropBody(p)
    \/ \E c \in Consumers : WaitEnter(c)
    \/ \E c \in Consumers : WaitStep(c)

SpecCollector == InitCollector /\ [][NextCollector]_vars

FairnessCollector ==
    /\ \A p \in Producers : WF_vars(LDropBody(p))
    /\ \A c \in Consumers : WF_vars(WaitStep(c))

FairSpecCollector == SpecCollector /\ FairnessCollector

----------------------------------------------------------------------------
(* Vocabulary of the properties *)

\* what one outcome shows to the caller
Shown(o) == [kind |-> o.kind, val |-> o.val]

Value(x) == [kind |-> "value", val |-> <<x>>]
Raised(e) == [kind |-> e, val |-> <<>>]

\* the outcomes consumer c has seen, in order
SeenBy(c) ==
    LET mine == SelectSeq(obs, LAMBDA o : o.who = c)
    IN  [i \in 1..Len(mine) |-> Shown(mine[i])]

Op(p, op, x) == [who |-> p, op |-> op, val |-> x]

\* the values handed to call, in the order the calls took effect
Calls(h) ==
    LET calls == SelectSeq(h, LAMBDA e : e.op = "call")
    IN  [i \in 1..Len(calls) |-> calls[i].val]

\* this step completes an operation of consumer c
Completes(c) ==
    /\ Len(obs') = Len(obs) + 1
    /\ Last(obs').who = c

\* the producers issued no call after a drop
NoCallAfterDrop ==
    /\ \A i, j \in 1..Len(hist) :
          (i < j /\ hist[i].op = "drop") => hist[j].op # "call"
    /\ qdone => \A p \in Producers : pc[p] # "call_body"

----------------------------------------------------------------------------
(* Closure and Handler: normalising what the user hands over  (lines 42-89) *)

\* Python values: a plain callable, None, a tuple
Fn(n) == [kind |-> "callable", name |-> n]
PyNone == [kind |-> "None"]
Tuple(items) == [kind |-> "tuple", items |-> items]

\* an object with the properties call and drop (IClosure, lines 14-21)
ClosureObj(call, drop) == [kind |-> "closure", call |-> call, drop |-> drop]

\* an object with the properties closure and receiver (IHandler, lines 31-39)
HandlerObj(closure, receiver) ==
    [kind |-> "handler", closure |-> closure, receiver |-> receiver]

\* callable(v)
IsCallable(v) == v.kind \in {"callable", "lambda"}

\* the type adaptors tried: x + 1 and 2 * x on the integers modulo 4
Adaptors == {"inc", "dbl"}
Args == 0..3

\* type_adaptor(*args)
Apply(f, args) ==
    IF f = "inc" THEN <<(args[1] + 1) % 4>> ELSE <<(2 * args[1]) % 4>>

\* a wrapper that hands the arguments on as they are
AdaptNothing(call, f) == [kind |-> "lambda", inner |-> call, by |-> "None"]

\* line 59: lambda *args: _call_(type_adaptor(*args))
Adapt(call, f) == [kind |-> "lambda", inner |-> call, by |-> f]

\* v(*args): the plain callables reached, each with the arguments it is
\* given; calling what is not callable raises TypeError
RECURSIVE Invoke(_, _)
Invoke(v, args) ==
    IF v.kind = "callable"
    THEN [err |-> "none", calls |-> <<[fn |-> v.name, args |-> args]>>]
    ELSE IF v.kind = "lambda"
    THEN Invoke(v.inner, IF v.by = "None" THEN args ELSE Apply(v.by, args))
    ELSE [err |-> "TypeError", calls |-> <<>>]

\* an exception leaves __init__
Failed(e) == [err |-> e]

\* Closure.__init__, lines 43-61; lambda: None of line 45 is the callable noop
ClosureInit(closure, adaptor) ==
    LET c == IF closure.kind = "handler" THEN closure.closure ELSE closure
        Done(call, drop) ==
            [err |-> "none",
             obj |-> ClosureObj(IF adaptor # "None" THEN Adapt(call, adaptor) ELSE call,
                                drop)]
    IN  IF c.kind = "closure" THEN Done(c.call, c.drop)
        ELSE IF c.kind = "tuple"
        THEN IF Len(c.items) = 2
             THEN Done(c.items[1], c.items[2])
             ELSE Failed("ValueError")
        ELSE IF IsCallable(c) THEN Done(c, Fn("noop"))
        ELSE Failed("TypeError")

\* Handler.__init__, lines 72-89
HandlerInit(inp, adaptor) ==
    LET Via(closure, receiver) ==
            LET r == ClosureInit(closure, adaptor)
            IN  IF r.err = "none"
                THEN [err |-> "none", obj |-> HandlerObj(r.obj, receiver)]
                ELSE r
    IN  IF inp.kind = "handler" THEN Via(inp.closure, inp.receiver)
        ELSE IF inp.kind = "closure" THEN Via(inp, PyNone)
        ELSE IF inp.kind = "tuple"
        THEN IF inp.items = <<>> THEN Failed("IndexError")
             ELSE IF inp.items[1].kind = "closure"
             THEN IF Len(inp.items) = 2
                  THEN Via(inp.items[1], inp.items[2])
                  ELSE Failed("ValueError")
             ELSE IF Len(inp.items) = 3
             THEN Via(Tuple(<<inp.items[1], inp.items[2]>>), inp.items[3])
             ELSE Via(inp, PyNone)
        ELSE Via(inp, PyNone)

----------------------------------------------------------------------------
(* Constructing one Closure or Handler and using it *)

\* closures and handlers made earlier: Closure((g, d)), Closure((g, d), inc),
\* Handler((g, d, 5))
OldClosure == ClosureInit(Tuple(<<Fn("g"), Fn("d")>>), "None").obj
OldAdapted == ClosureInit(Tuple(<<Fn("g"), Fn("d")>>), "inc").obj
OldHandler == HandlerInit(Tuple(<<Fn("g"), Fn("d"), Scalar>>), "None").obj

\* what the tuples handed over are made of
Elems == {Scalar, Fn("g"), Fn("d"), OldClosure}

Tuples == {Tuple(t) : t \in UNION {[1..n -> Elems] : n \in 0..MaxTuple}}

Inputs == {Scalar, PyNone, Fn("g"), OldClosure, OldAdapted, OldHandler} \cup Tuples

InitNormalize ==
    /\ qvec = <<>>
    /\ qdone = FALSE
    /\ lvec = <<>>
    /\ ldone = FALSE
    /\ ltimeout = "None"
    /\ lock = NoThread
    /\ waiters = {}
    /\ notified = {}
    /\ prog = [c \in Consumers |-> [op |-> "none", tmo |-> "None"]]
    /\ pc = [t \in Threads |-> "idle"]
    /\ arg = [t \in Threads |-> 0]
    /\ hist = <<>>
    /\ obs = <<>>
    /\ dropWaiters = {}
    /\ class \in {"Closure", "Handler"}
    /\ input \in Inputs
    /\ type_adaptor \in Adaptors \cup {"None"}
    /\ made = Unmade
    /\ invoked = <<>>

\* Closure(input, type_adaptor) or Handler(input, type_adaptor)
Construct ==
    /\ made = Unmade
    /\ made' = IF class = "Closure"
               THEN ClosureInit(input, type_adaptor)
               ELSE HandlerInit(input, type_adaptor)
    /\ UNCHANGED <<qstate, lstate, lock, waiters, notified, prog, pc, arg, hist,
                   obs, dropWaiters, class, input, type_adaptor, invoked>>

\* the closure made: the Closure itself, or Handler.closure (lines 91-93)
TheClosure == IF class = "Closure" THEN made.obj ELSE made.obj.closure

\* one use of the closure made: what was asked of it, the plain callables
\* that ran and the error raised, if any
Use(op, args, r) == [op |-> op, args |-> args, err |-> r.err, calls |-> r.calls]

\* closure.call(x), lines 62-64
CallNormalized(x) ==
    /\ made.err = "none"
    /\ Len(invoked) < MaxInvocations
    /\ invoked' = Append(invoked, Use("call", <<x>>, Invoke(TheClosure.call, <<x>>)))
    /\ UNCHANGED <<qstate, lstate, lock, waiters, notified, prog, pc, arg, hist,
                   obs, dropWaiters, class, input, type_adaptor, made>>

\* closure.drop(), lines 66-68
DropNormalized ==
    /\ made.err = "none"
    /\ Len(invoked) < MaxInvocations
    /\ invoked' = Append(invoked, Use("drop", <<>>, Invoke(TheClosure.drop, <<>>)))
    /\ UNCHANGED <<qstate, lstate, lock, waiters, notified, prog, pc, arg, hist,
                   obs, dropWaiters, class, input, type_adaptor, made>>

NextNormalize ==
    \/ Construct
    \/ \E x \in Args : CallNormalized(x)
    \/ DropNormalized

SpecNormalize == InitNormalize /\ [][NextNormalize]_vars

----------------------------------------------------------------------------
(* Either handler: the program under run uses a Queue or a ListCollector *)

UsesQueue == \A c \in Consumers : prog[c] \in QueuePrograms

InitHandlers == Init \/ InitCollector

NextHandlers ==
    \/ UsesQueue /\ Next
    \/ ~UsesQueue /\ NextCollector

SpecHandlers == InitHandlers /\ [][NextHandlers]_vars

----------------------------------------------------------------------------
(* Properties of Queue *)

\* C1 (as claimed): producer p1 runs call(1); call(2); drop() and consumer c1
\* alone runs get with a finite timeout three times, none of which ends by
\* its timeout elapsing on the open queue: c1 observes 1, then 2, then
\* QueueClosed.
C1_Orig_OneTwoClosed ==
    ( /\ hist = <<Op("p1", "call", 1), Op("p1", "call", 2), Op("p1", "drop", 0)>>
      /\ prog["c1"] = [op |-> "get", tmo |-> "Pos"]
      /\ Len(SeenBy("c1")) = 3
      /\ SeenBy("c2") = <<>> /\ pc["c2"] = "idle"
      /\ \A i \in 1..3 : obs[i].kind # "Timeout" )
    => SeenBy("c1") = <<Value(1), Value(2), Raised("QueueClosed")>>

\* C2 (as claimed): whenever get raises QueueClosed while the producers have
\* issued no call after a drop, the queue is closed and the buffer is empty
\* at that moment.
C2_Orig_ClosedMeansDrained ==
    [][ \A c \in Consumers :
          ( /\ Completes(c)
            /\ prog[c].op = "get"
            /\ Last(obs').kind = "QueueClosed"
            /\ NoCallAfterDrop )
          => (qdone /\ qvec = <<>>) ]_vars

\* C3 (as claimed): whenever get_remaining returns normally, the queue is
\* closed and the value returned is the buffer, in buffer order.
C3_Orig_RemainingIsBuffer ==
    [][ \A c \in Consumers :
          ( /\ Completes(c)
            /\ prog[c].op = "get_remaining"
            /\ Last(obs').kind \in {"list", "none"} )
          => (qdone /\ Shown(Last(obs')) = [kind |-> "list", val |-> qvec]) ]_vars

\* C4 (as claimed): the consumers that were blocked in get or get_remaining
\* with no timeout on the empty open queue when drop was called, several of
\* them, all wake up and complete.
C4_Orig_DropWakesAll ==
    \A c \in Consumers :
        (Cardinality(dropWaiters) > 1 /\ c \in dropWaiters /\ qdone)
            ~> (pc[c] = "idle")

\* C6 (as claimed): a get with no timeout never raises Timeout.
C6_Orig_NoTimeoutWithoutTimeout ==
    \A i \in 1..Len(obs) :
        prog[obs[i].who] = [op |-> "get", tmo |-> "None"]
            => obs[i].kind # "Timeout"

\* C7 (as claimed): a get_remaining with no timeout raises no error of any
\* kind, and completes only once the queue is closed.
C7_Orig_RemainingNeverFails ==
    \A i \in 1..Len(obs) :
        prog[obs[i].who] = [op |-> "get_remaining", tmo |-> "None"]
            => (obs[i].kind \in {"list", "none"} /\ qdone)

\* the buffer or the closed flag of either receiver changes in this step
Mutates == <<qvec, qdone, lvec, ldone>>' # <<qvec, qdone, lvec, ldone>>

\* the thread that takes this step, when the step mutates: a producer's
\* call or drop takes effect, or a consumer's get returns a value
Actor == IF hist' # hist THEN Last(hist').who ELSE Last(obs').who

\* C8 (as claimed): every change of the buffer (append by call, removal by
\* get) and of the closed flag (drop) is made by a thread that holds the
\* instance's lock.
C8_Orig_MutationsUnderLock ==
    [][ Mutates => lock = Actor ]_vars

----------------------------------------------------------------------------
(* Properties of ListCollector *)

\* C5 (as claimed): the consumers that were blocked in the receiver's wait
\* with no timeout when drop was called, several of them, all return.
C5_Orig_DropWakesAllWaits ==
    \A c \in Consumers :
        (Cardinality(dropWaiters) > 1 /\ c \in dropWaiters /\ ldone)
            ~> (pc[c] \in {"wait_use", "idle"})

\* the producer entered a Closure scope, called v1..vn in it and left it
ScopeRun ==
    /\ Len(hist) >= 2
    /\ hist[1].op = "enter"
    /\ Last(hist).op = "exit"
    /\ \A i \in 2..(Len(hist) - 1) : hist[i].op = "call"

\* C9 (as claimed): the producer runs `with Closure(collector)`, calling
\* v1..vn inside the scope, while consumers invoke the receiver with no
\* timeout: every result a receiver call gave is [v1, ..., vn].
C9_Orig_ScopeResults ==
    (ScopeRun /\ ltimeout = "None")
        => \A i \in 1..Len(obs) : obs[i].val = Calls(hist)

\* the producer issued call(v1), ..., call(vn), drop() and nothing else
CallsThenDrop ==
    /\ hist # <<>>
    /\ Last(hist).op = "drop"
    /\ \A i \in 1..(Len(hist) - 1) : hist[i].op = "call"
    /\ \A p \in Producers : pc[p] = "idle"

\* C10: after call(v1), ..., call(vn), drop() and nothing else, a receiver
\* wait with no timeout returns without blocking, and what it returns is
\* [v1, ..., vn] in call order.
C10_WaitAfterDrop ==
    [][ \A c \in Consumers :
          /\ (pc[c] = "idle" /\ pc'[c] # "idle" /\ CallsThenDrop /\ ltimeout = "None")
                => pc'[c] = "wait_use"
          /\ ( /\ pc[c] = "wait_use"
               /\ Completes(c)
               /\ arg[c] = Len(hist)
               /\ CallsThenDrop /\ ltimeout = "None" )
                => Shown(Last(obs')) = [kind |-> "list", val |-> Calls(hist)] ]_vars

\* C10 witness: after call(1); call(2); drop() a wait with no timeout has
\* just returned to its caller
C10_Witness ==
    /\ hist = <<Op("p1", "call", 1), Op("p1", "call", 2), Op("p1", "drop", 0)>>
    /\ ltimeout = "None"
    /\ pc["c1"] = "wait_use"
    /\ arg["c1"] = 3
    /\ lvec = <<1, 2>>

----------------------------------------------------------------------------
(* Further properties of Queue *)

\* how often x occurs in the sequence s
Count(s, x) == Cardinality({i \in 1..Len(s) : s[i] = x})

\* the values the gets have returned so far, in the order they returned
Taken ==
    LET got == SelectSeq(obs, LAMBDA o : o.kind = "value")
    IN  [i \in 1..Len(got) |-> got[i].val[1]]

\* C11: after call(v1), ..., call(vn), drop() and nothing else from the
\* producer, a get_remaining with no timeout that runs alone returns a
\* sequence: the values called less the values the gets had taken; it is
\* [v1, ..., vn] in call order when no get had taken a value, and it is
\* empty after a full drain.
C11_RemainingAfterDrop ==
    [][ \A c \in Consumers :
          ( /\ Completes(c)
            /\ prog[c] = [op |-> "get_remaining", tmo |-> "None"]
            /\ CallsThenDrop
            /\ arg[c] = Len(hist)
            /\ Running \cap Consumers = {c} )
          => /\ Last(obs').kind = "list"
             /\ \A x \in Values :
                   Count(Last(obs').val, x) + Count(Taken, x) = Count(Calls(hist), x)
             /\ Taken = <<>> => Last(obs').val = Calls(hist)
             /\ Len(Taken) = Len(Calls(hist)) => Last(obs').val = <<>> ]_vars

\* C11 witness: after call(1); call(2); drop() a get_remaining with no
\* timeout has returned [1, 2]
C11_Witness ==
    /\ hist = <<Op("p1", "call", 1), Op("p1", "call", 2), Op("p1", "drop", 0)>>
    /\ prog["c1"] = [op |-> "get_remaining", tmo |-> "None"]
    /\ obs = <<Outcome("c1", "list", <<1, 2>>)>>

\* consumer c is the only consumer there has been, and since it invoked the
\* operation it is in no producer has done or begun anything
Solo(c) ==
    /\ \A d \in Consumers \ {c} : pc[d] = "idle" /\ SeenBy(d) = <<>>
    /\ \A p \in Producers : pc[p] = "idle"
    /\ pc[c] = "idle" \/ arg[c] = Len(hist)

\* C12: the outcome of a get of a single consumer, with no producer at work
\* during the get, follows the state at the call: buffer non-empty, the get
\* returns the value at the buffer's right end in its first step; buffer
\* empty and queue closed, it raises QueueClosed at its first look at the
\* flag, never having waited; buffer empty and queue open, it begins to
\* wait, and it ends only after the wait, by the timeout, raising Timeout.
C12_GetOutcomes ==
    [][ \A c \in Consumers :
          /\ ( /\ Completes(c)
               /\ prog[c].op = "get"
               /\ Solo(c) )
             => /\ qvec # <<>> =>
                     /\ pc[c] = "idle"
                     /\ Shown(Last(obs')) = Value(Last(qvec))
                /\ (qvec = <<>> /\ qdone) =>
                     /\ pc[c] = "get_chk"
                     /\ Shown(Last(obs')) = Raised("QueueClosed")
                /\ (qvec = <<>> /\ ~qdone) =>
                     /\ pc[c] = "get_chk2"
                     /\ prog[c].tmo # "None"
                     /\ Shown(Last(obs')) = Raised("Timeout")
          /\ ( /\ pc[c] = "idle"
               /\ pc'[c] # "idle"
               /\ prog[c].op = "get" )
             => qvec = <<>>
          /\ ( /\ pc[c] = "get_chk"
               /\ pc'[c] \notin {"get_chk", "idle"}
               /\ prog[c].op = "get" )
             => ~qdone /\ pc'[c] = "get_wait" ]_vars

\* C12 witness: one consumer alone has met the three cases: a timeout on the
\* open empty queue, then a value, then QueueClosed
C12_Witness ==
    /\ hist = <<Op("p1", "call", 1), Op("p1", "drop", 0)>>
    /\ obs = <<Outcome("c1", "Timeout", <<>>), Outcome("c1", "value", <<1>>),
               Outcome("c1", "QueueClosed", <<>>)>>

\* this step completes a drop of the handler in use, whoever called it
DropDone ==
    /\ Len(hist') = Len(hist) + 1
    /\ Last(hist').op \in {"drop", "enter", "exit"}

\* the closed flag of the handler in use
Closed == IF UsesQueue THEN qdone ELSE ldone

\* C13: closing is permanent and drop is idempotent, for Queue and for
\* ListCollector: no step of call, drop, get, get_remaining or wait takes a
\* set closed flag back; a drop of an already closed handler leaves flag
\* and buffer as they were; and a drop that has the lock can always
\* complete, closed or not (it has no failing path).
C13_ClosedStaysClosed ==
    /\ [][ /\ qdone => qdone'
           /\ ldone => ldone'
           /\ (DropDone /\ Closed) => UNCHANGED <<qvec, qdone, lvec, ldone>> ]_vars
    /\ [](\A p \in Producers :
            /\ pc[p] = "drop_body" => ENABLED QDropBody(p)
            /\ pc[p] \in {"drop", "enter", "exit"} => ENABLED LDropBody(p))

\* C13 witness: a queue holding a value has been dropped twice
C13_Witness ==
    /\ hist = <<Op("p1", "call", 1), Op("p1", "drop", 0), Op("p1", "drop", 0)>>
    /\ qvec = <<1>>
    /\ qdone

\* this step is a step of an operation of consumer c
StepOf(c) == pc'[c] # pc[c] \/ Completes(c)

\* C14: an operation that ends by timeout mutates nothing: the only step of
\* a get, get_remaining or wait that changes a buffer or a closed flag is
\* the step in which a get returns the value it popped; so no step of an
\* operation that raises Timeout, or of a wait that returns after its
\* timeout, changes the buffer or the closed flag.
C14_TimeoutMutatesNothing ==
    [][ \A c \in Consumers :
          /\ (StepOf(c) /\ ~(Completes(c) /\ Last(obs').kind = "value"))
             => UNCHANGED <<qvec, qdone, lvec, ldone>>
          /\ (Completes(c) /\ Last(obs').kind = "Timeout")
             => UNCHANGED <<qvec, qdone, lvec, ldone>>
          /\ (StepOf(c) /\ pc[c] \in {"get_timedout", "rem_timedout", "wait_timedout"})
             => UNCHANGED <<qvec, qdone, lvec, ldone>> ]_vars

\* C14 witness: a get_remaining with a timeout has raised Timeout on an
\* open queue that holds a value, and the value is still there
C14_Witness ==
    /\ hist = <<Op("p1", "call", 1)>>
    /\ prog["c1"] = [op |-> "get_remaining", tmo |-> "Pos"]
    /\ obs = <<Outcome("c1", "Timeout", <<>>)>>
    /\ qvec = <<1>>
    /\ ~qdone

InvokedAfterDrop(c) ==
    /\ pc[c] # "idle"
    /\ \E i \in 1..arg[c] : hist[i].op = "drop"

\* C18: closing does not block delivery or retrieval: a call after a drop
\* still appends its value, and a get invoked after the drop raises
\* QueueClosed only when the buffer is exhausted.
C18_Orig_ClosedDeliversAll ==
    [][ /\ (Len(hist') = Len(hist) + 1 /\ Last(hist').op = "call" /\ qdone)
           => qvec' = qvec \o <<Last(hist').val>>
        /\ \A c \in Consumers :
             ( /\ Completes(c)
               /\ prog[c].op = "get"
               /\ InvokedAfterDrop(c)
               /\ Last(obs').kind = "QueueClosed" )
             => qvec = <<>> ]_vars

\* consumer c is inside a get with no timeout
InGetForever(c) == prog[c] = [op |-> "get", tmo |-> "None"] /\ pc[c] # "idle"

\* no consumer but c has called anything
OnlyConsumer(c) == \A d \in Consumers \ {c} : pc[d] = "idle" /\ SeenBy(d) = <<>>

\* the last operation to complete was c's and gave a value or QueueClosed
Answered(c) ==
    /\ pc[c] = "idle"
    /\ obs # <<>>
    /\ Last(obs).who = c
    /\ Last(obs).kind \in {"value", "QueueClosed"}

\* C19: with one consumer and one producer, a get with no timeout does not
\* stay blocked while the buffer is non-empty or the queue is closed:
\* whenever the consumer is inside such a get and the buffer holds a value
\* or the queue is closed, the get goes on to return a value or to raise
\* QueueClosed (unless a second consumer turns up).
C19_Orig_GetNeverStuck ==
    \A c \in Consumers :
       (InGetForever(c) /\ OnlyConsumer(c) /\ (qvec # <<>> \/ qdone))
          ~> (Answered(c) \/ ~OnlyConsumer(c))

\* C20: values are neither duplicated nor fabricated: at every moment the
\* values the gets have returned together with the values in the buffer are,
\* with their multiplicities, the values the calls have appended; so every
\* value returned was appended before, and no appended value is returned
\* by two gets.
C20_ValuesConserved ==
    \A x \in Values :
       Count(Taken, x) + Count(qvec, x) = Count(Calls(hist), x)

\* C20 witness: two consumers have each taken one of the two values called
C20_Witness ==
    /\ Calls(hist) = <<1, 2>>
    /\ Len(hist) = 2
    /\ obs = <<Outcome("c1", "value", <<2>>), Outcome("c2", "value", <<1>>)>>
    /\ qvec = <<>>

----------------------------------------------------------------------------
(* Properties of Closure and Handler *)

\* a (call, drop) pair
IsPair(v) ==
    /\ v.kind = "tuple"
    /\ Len(v.items) = 2
    /\ IsCallable(v.items[1])
    /\ IsCallable(v.items[2])

\* the shapes Closure is documented to accept (IntoClosure, line 41)
IntoClosure(v) ==
    \/ v.kind \in {"handler", "closure"}
    \/ IsPair(v)
    \/ IsCallable(v)

\* the shapes Handler is documented to accept (IntoHandler, line 70)
IntoHandler(v) ==
    \/ IntoClosure(v)
    \/ v.kind = "tuple" /\ Len(v.items) = 2 /\ v.items[1].kind = "closure"
    \/ /\ v.kind = "tuple"
       /\ Len(v.items) = 3
       /\ IsCallable(v.items[1])
       /\ IsCallable(v.items[2])

Accepted == IF class = "Closure" THEN IntoClosure(input) ELSE IntoHandler(input)

\* C15: constructing a Closure or a Handler from an input of none of the
\* accepted shapes fails with TypeError: no other error, no object.
C15_Orig_RejectsWithTypeError ==
    (made # Unmade /\ ~Accepted) => made.err = "TypeError"

\* the call g that an accepted input brings along
UnderlyingCall(v) ==
    IF v.kind = "handler" THEN v.closure.call
    ELSE IF v.kind = "closure" THEN v.call
    ELSE IF v.kind = "tuple" THEN v.items[1]
    ELSE v

\* whether an accepted input brings a drop along, and which
HasDrop(v) == v.kind \in {"handler", "closure", "tuple"}
UnderlyingDrop(v) ==
    IF v.kind = "handler" THEN v.closure.drop
    ELSE IF v.kind = "closure" THEN v.drop
    ELSE v.items[2]

\* C16: for a callable, a (call, drop) pair, a Closure or a Handler
\* normalised with a type adaptor f over the underlying call g, call(x) of
\* the normalised closure invokes g once, with f(x), and nothing else; its
\* drop is the underlying drop itself, not a wrapper, and invoking it runs
\* the underlying drop with no argument.
C16_AdaptorComposition ==
    (made.err = "none" /\ type_adaptor # "None" /\ IntoClosure(input)) =>
       LET g == UnderlyingCall(input)
           Adapted(args) == Apply(type_adaptor, args)
       IN  /\ \A x \in Args :
                 /\ Invoke(TheClosure.call, <<x>>) = Invoke(g, Adapted(<<x>>))
                 /\ g.kind = "callable" =>
                       Invoke(TheClosure.call, <<x>>).calls
                           = <<[fn |-> g.name, args |-> Adapted(<<x>>)]>>
           /\ HasDrop(input) => TheClosure.drop = UnderlyingDrop(input)
           /\ TheClosure.drop.kind # "lambda"
           /\ \A i \in 1..Len(invoked) :
                 /\ invoked[i].err = "none"
                 /\ invoked[i].op = "call" =>
                       invoked[i].calls = Invoke(g, Adapted(invoked[i].args)).calls
                 /\ (invoked[i].op = "drop" /\ HasDrop(input)) =>
                       invoked[i].calls
                           = <<[fn |-> UnderlyingDrop(input).name, args |-> <<>>]>>

\* C16 witness: Closure((g, d), dbl) has been called with 3, which ran g(2),
\* and dropped, which ran d()
C16_Witness ==
    /\ class = "Closure"
    /\ input = Tuple(<<Fn("g"), Fn("d")>>)
    /\ type_adaptor = "dbl"
    /\ invoked = <<[op |-> "call", args |-> <<3>>, err |-> "none",
                    calls |-> <<[fn |-> "g", args |-> <<2>>]>>],
                   [op |-> "drop", args |-> <<>>, err |-> "none",
                    calls |-> <<[fn |-> "d", args |-> <<>>]>>]>>

=============================================================================
